---- MODULE Spec2Model ----
(***************************************************************************)
(* A model of gx-go: the rewrite map builder (buildRewriteMapping), the    *)
(* translate functions (doRewrite, doUpdate), the import rewriter          *)
(* (RewriteImports, rewriteImportsInFile) and the recursive publisher      *)
(* (Importer.GxPublishGoPackage).                                          *)
(*                                                                         *)
(* An import path is a sequence of its slash-separated segments:           *)
(* "gx/ipfs/h1/n1" is <<"gx", "ipfs", "h1", "n1">>; the empty string is    *)
(* <<>>.                                                                   *)
(***************************************************************************)
EXTENDS Integers, Sequences, FiniteSets, TLC

\* ------------------------------------------------------------------------
\* Bounds
\* ------------------------------------------------------------------------

\* the sum of the lengths of the dependency lists of the descriptors read
MaxEdges == 5

\* the number of dependencies the publisher discovers in one invocation
MaxVendorEdges == 4

\* the number of import declarations found in the tree of one repository
MaxImports == 2

\* the number of nested activations of GxPublishGoPackage
MaxDepth == 3

\* the number of segments of the import paths that are canonicalized
MaxSegs == 4

\* the number of file operations of the rewriter that fail
MaxFaults == 1

\* the number of times gx-go is run on one tree
MaxRuns == 2

\* ------------------------------------------------------------------------
\* Paths
\* ------------------------------------------------------------------------

\* strings.HasPrefix(in, k + "/")
HasSlashPrefix(in, k) ==
    /\ Len(in) > Len(k)
    /\ SubSeq(in, 1, Len(k)) = k

\* a replacement that drops what follows the prefix
ReplacePrefix_Whole(in, k, v) == v

\* strings.Replace(in, k, v, 1) for an `in` that starts with k + "/"
ReplacePrefix(in, k, v) == v \o SubSeq(in, Len(k) + 1, Len(in))

Range(s) == {s[i] : i \in 1..Len(s)}

\* the pairs <<a, b>> of distinct path segments of the model for which the
\* string a starts with the string b
SegPrefixes == {<<"r-util", "r">>}

\* strings.HasPrefix(c, p) on the strings of two paths: p ends inside or at
\* the end of a segment of c
StrHasPrefix(c, p) ==
    \/ p = <<>>
    \/ /\ Len(c) >= Len(p)
       /\ SubSeq(c, 1, Len(p) - 1) = SubSeq(p, 1, Len(p) - 1)
       /\ \/ c[Len(p)] = p[Len(p)]
          \/ <<c[Len(p)], p[Len(p)]>> \in SegPrefixes

\* the host names: the segments that contain a dot
DottedSegs == {"github.com", "example.org"}

\* pathIsNotStdlib: the first segment has a dot
pathIsNotStdlib(path) == path # <<>> /\ path[1] \in DottedSegs

\* a canonicalization that keeps two segments
getBaseDVCS_Depth2(path) ==
    IF Len(path) > 2 THEN SubSeq(path, 1, 2) ELSE path

\* getBaseDVCS: the first three segments of a path of more than three
getBaseDVCS(path) ==
    IF Len(path) > 3 THEN SubSeq(path, 1, 3) ELSE path

\* ------------------------------------------------------------------------
\* The dependency descriptors on disk (package.json of the root and of the
\* packages under vendor/gx/ipfs/<hash> and $GOPATH/src/gx/ipfs/<hash>)
\* ------------------------------------------------------------------------

Hashes == {"h1", "h2", "h3"}

Root == "root"

\* the name field of the package published as a hash
PkgName(h) ==
    CASE h = "h1" -> "n1"
      [] h = "h2" -> "n2"
      [] h = "h3" -> "n3"
      [] OTHER -> "r"

\* the values of Gx.DvcsImport: none, a repository, a sub-package of it
NoImport == <<>>
PathA == <<"d", "a">>
PathB == <<"d", "a", "b">>
DvcsImports == {NoImport, PathA, PathB}

\* a dependency list names each hash at most once
DepLists ==
    {s \in UNION {[1..k -> Hashes] : k \in 0..Cardinality(Hashes)} :
        \A i, j \in 1..Len(s) : s[i] = s[j] => i = j}

\* the descriptor of a hash that has not been read yet
NoFile == [found |-> FALSE, dvcs |-> <<"unread">>, deps |-> <<>>]

\* the descriptors a hash can have: it does not list itself, and a
\* descriptor that is found neither under vendor/ nor in the global
\* path has no content
PkgFiles(h) ==
    {f \in [found : {TRUE}, dvcs : DvcsImports, deps : DepLists] :
        h \notin Range(f.deps)}
        \cup {[found |-> FALSE, dvcs |-> NoImport, deps |-> <<>>]}

VARIABLES
    rootDeps,   \* Dependencies of the root package.json
    pkgfiles,   \* hash -> the descriptor FindPackageInDir reads (NoFile: not read yet)
    undo,       \* the undo argument of buildRewriteMapping
    seen,       \* buildRewriteMapping: seen
    m,          \* the rewrite map (a function from paths to paths)
    stack,      \* the activations of process: [pkg, i, rootPackage]
    mapState,   \* "idle", "building", "built", "failed"
    mapErr,     \* the error buildRewriteMapping returned: <<dep name, parent name>>
    vlog,       \* what addRewriteForDep logged: {[from, have, to]}
    probed      \* the directories the last loadDep looked into, in order

mapVars == <<rootDeps, pkgfiles, undo, seen, m, stack, mapState, mapErr, vlog, probed>>

VARIABLES
    arg,        \* the import path GxPublishGoPackage is started with
    preMap,     \* Importer.preMap: import path -> hash
    pkgs,       \* Importer.pkgs: import path -> Dependency
    pstack,     \* the activations of GxPublishGoPackage that are in their loop:
                \* [imppath, deps, n, pkgDeps]
    call,       \* the import path of a call of GxPublishGoPackage that was just made
    pubState,   \* "idle", "running", "done", "failed"
    result,     \* what the outermost GxPublishGoPackage returned
    vendorDeps, \* path -> what depsToVendorForPackage found for it
    publishCalls, \* the paths PublishPackage was called for, in order
    saved,      \* path -> the Dependencies SavePackageFile persisted
    fetched,    \* the hashes GetPackageTo was called for
    gotten      \* the paths GoGet was called for

pubVars == <<arg, preMap, pkgs, pstack, call, pubState, result, vendorDeps,
             publishCalls, saved, fetched, gotten>>

VARIABLES
    canonIn,    \* two import paths GxPublishGoPackage is called with
    canonKey    \* the keys of pkgs and preMap they are looked up under

canonVars == <<canonIn, canonKey>>

VARIABLES
    rwmap0,     \* doRewrite: mapping, as doRewrite was called with it
    rwmap,      \* doRewrite: mapping, as the translate function has filled it
    files,      \* the content of the source files of the tree
    orig,       \* the content of the files when RewriteImports was called
    tmpfiles,   \* the files <file>.temp that exist, with their content
    walkPos,    \* the entry of the tree the walk visits next
    closed,     \* the channel torewrite has been closed
    workers,    \* the worker goroutines: [pc, file, imps]
    rwLock,     \* the worker that holds rwLock, 0 when it is free
    rwErrors,   \* the files a "rewrite error" was printed for
    rwState,    \* "idle", "walking", "waiting" (wg.Wait), "returned"
    rwResult,   \* what RewriteImports returned
    created,    \* the files os.Create(<file>.temp) was called for
    renamed,    \* the files os.Rename replaced
    untouched,  \* the files whose imports translate left as they were
    faults,     \* the number of file operations that have failed
    received    \* the files the workers have received from torewrite, in order

rwVars == <<rwmap0, rwmap, files, orig, tmpfiles, walkPos, closed, workers, rwLock,
            rwErrors, rwState, rwResult, created, renamed, untouched, faults,
            received>>

VARIABLES
    trMode,     \* the command that is run on the tree: "rewrite" or "update"
    trOld,      \* doUpdate: oldimp
    trNew,      \* doUpdate: newimp
    trOps,      \* the runs that have rewritten the tree: "fwd", "undo", "upd"
    trHist,     \* the import paths of the tree, before the runs and after each
    trBuilt     \* the maps buildRewriteMapping has built, one for each run

trVars == <<trMode, trOld, trNew, trOps, trHist, trBuilt>>

VARIABLES
    fixIn,      \* fixImports: the import paths rwf is called with, in order
    fixPkgs,    \* fixImports: what FindPackageInDir finds for each hash
    fixmap,     \* fixImports: fixmap
    fixOut,     \* fixImports: what rwf has returned for each import
    fixState    \* "idle", "running", "panicked" or "returned"

fixVars == <<fixIn, fixPkgs, fixmap, fixOut, fixState>>

vars == <<mapVars, pubVars, canonVars, rwVars, trVars, fixVars>>

notMap == <<pubVars, canonVars, rwVars, trVars, fixVars>>
notPub == <<mapVars, canonVars, rwVars, trVars, fixVars>>
notCanon == <<mapVars, pubVars, rwVars, trVars, fixVars>>
notRw == <<mapVars, pubVars, canonVars, trVars, fixVars>>
notTr == <<pubVars, canonVars, rwVars, fixVars>>
notFix == <<mapVars, pubVars, canonVars, rwVars, trVars>>

MapPut(f, k, v) == [x \in (DOMAIN f) \cup {k} |-> IF x = k THEN v ELSE f[x]]

\* "gx/ipfs/" + dep.Hash + "/" + pkg.Name
Canonical(h) == <<"gx", "ipfs", h, PkgName(h)>>

Dependencies(p) == IF p = Root THEN rootDeps ELSE pkgfiles[p].deps

Read(h) == pkgfiles[h] # NoFile

EdgesRead ==
    LET RECURSIVE Sum(_)
        Sum(S) == IF S = {} THEN 0
                  ELSE LET h == CHOOSE x \in S : TRUE
                       IN  (IF Read(h) THEN Len(pkgfiles[h].deps) ELSE 0) + Sum(S \ {h})
    IN  Len(rootDeps) + Sum(Hashes)

\* loadDep: the directories FindPackageInDir is called on, for a descriptor
\* that is under the vendor directory (inVendor) or not: the global path
\* is tried only after the vendor directory failed
loadDepProbes(inVendor) ==
    IF inVendor THEN <<"vendor">> ELSE <<"vendor", "global">>

\* a loadDep that returns no error
loadDepFails_Never(file) == FALSE

\* loadDep: it fails when both lookups fail
loadDepFails(file) == ~file.found

\* a builder that never reverses the pair
addRewriteForDep_NoSwap(h, file, mm, un, overwrite) ==
    IF file.dvcs = NoImport THEN mm
    ELSE IF file.dvcs \notin DOMAIN mm \/ overwrite
         THEN MapPut(mm, file.dvcs, Canonical(h))
         ELSE mm

\* addRewriteForDep: the map after the call
addRewriteForDep(h, file, mm, un, overwrite) ==
    IF file.dvcs = NoImport THEN mm
    ELSE LET from == IF un THEN Canonical(h) ELSE file.dvcs
             to   == IF un THEN file.dvcs ELSE Canonical(h)
         IN  IF from \notin DOMAIN mm \/ overwrite
             THEN MapPut(mm, from, to)
             ELSE mm

\* addRewriteForDep: the VLog call of its else branch
addRewriteLogs(h, file, mm, un, overwrite) ==
    IF file.dvcs = NoImport THEN {}
    ELSE LET from == IF un THEN Canonical(h) ELSE file.dvcs
             to   == IF un THEN file.dvcs ELSE Canonical(h)
         IN  IF from \notin DOMAIN mm \/ overwrite THEN {}
             ELSE IF mm[from] # to
                  THEN {[from |-> from, have |-> mm[from], to |-> to]}
                  ELSE {}

Top == stack[Len(stack)]

Pop == SubSeq(stack, 1, Len(stack) - 1)

Advance == [Pop EXCEPT ![Len(stack) - 1].i = @ + 1]

EmptyMap == [x \in {} |-> <<>>]

\* no path has been canonicalized
IdleCanon ==
    /\ canonIn = <<>>
    /\ canonKey = <<>>

\* fixImports before it is called
IdleFix ==
    /\ fixIn = <<>>
    /\ fixPkgs = <<>>
    /\ fixmap = <<>>
    /\ fixOut = <<>>
    /\ fixState = "idle"

\* no command has been run on a tree
IdleTr ==
    /\ trMode = "none"
    /\ trOld = <<>>
    /\ trNew = <<>>
    /\ trOps = <<>>
    /\ trHist = <<>>
    /\ trBuilt = <<>>

\* RewriteImports has not been called
IdleRw ==
    /\ rwmap0 = EmptyMap
    /\ rwmap = EmptyMap
    /\ files = EmptyMap
    /\ orig = EmptyMap
    /\ tmpfiles = EmptyMap
    /\ walkPos = 0
    /\ closed = FALSE
    /\ workers = <<>>
    /\ rwLock = 0
    /\ rwErrors = <<>>
    /\ rwState = "idle"
    /\ rwResult = "none"
    /\ created = {}
    /\ renamed = {}
    /\ untouched = {}
    /\ faults = 0
    /\ received = <<>>

\* the publisher before it is started
IdlePub ==
    /\ arg = <<>>
    /\ preMap = EmptyMap
    /\ pkgs = EmptyMap
    /\ pstack = <<>>
    /\ call = <<>>
    /\ pubState = "idle"
    /\ result = <<>>
    /\ vendorDeps = EmptyMap
    /\ publishCalls = <<>>
    /\ saved = EmptyMap
    /\ fetched = {}
    /\ gotten = {}

InitMap ==
    /\ IdleFix
    /\ IdleTr
    /\ IdlePub
    /\ IdleCanon
    /\ IdleRw
    /\ rootDeps \in DepLists
    /\ Len(rootDeps) <= MaxEdges
    /\ pkgfiles = [h \in Hashes |-> NoFile]
    /\ undo \in BOOLEAN
    /\ seen = {}
    /\ m = EmptyMap
    /\ stack = <<>>
    /\ mapState = "idle"
    /\ mapErr = <<>>
    /\ vlog = {}
    /\ probed = <<>>

\* buildRewriteMapping: seen is made empty and process(pkg, true) is called
buildRewriteMapping ==
    /\ mapState = "idle"
    /\ mapState' = "building"
    /\ seen' = {}
    /\ stack' = <<[pkg |-> Root, i |-> 1, rootPackage |-> TRUE]>>
    /\ UNCHANGED <<rootDeps, pkgfiles, undo, m, mapErr, vlog, probed, notMap>>

InLoop ==
    /\ mapState = "building"
    /\ stack # <<>>
    /\ Top.i <= Len(Dependencies(Top.pkg))

CurDep == Dependencies(Top.pkg)[Top.i]

\* a loop that looks at the same dependency again
Continue_Again(frames) == frames

\* continue: the range loop of the innermost activation takes the next
\* dependency
Continue(frames) == [frames EXCEPT ![Len(frames)].i = @ + 1]

\* a builder that never finds a hash in seen
Seen_Never(s, h) == FALSE

\* process: _, ok := seen[dep.Hash]
Seen(s, h) == h \in s

\* process: the dependency was seen before, continue
processSeen ==
    /\ InLoop
    /\ Seen(seen, CurDep)
    /\ stack' = Continue(stack)
    /\ UNCHANGED <<rootDeps, pkgfiles, undo, seen, m, mapState, mapErr, vlog, probed, notMap>>

\* what FindPackageInDir reads for a hash: the file read before, or a file
\* that is read now for the first time
FileFor(h, file) ==
    IF Read(h) THEN file = pkgfiles[h]
    ELSE /\ file \in PkgFiles(h)
         /\ EdgesRead + Len(file.deps) <= MaxEdges

\* process: loadDep fails, the error is returned through every activation
processLoadFails ==
    /\ InLoop
    /\ ~Seen(seen, CurDep)
    /\ \E file \in PkgFiles(CurDep) :
        /\ FileFor(CurDep, file)
        /\ loadDepFails(file)
        /\ pkgfiles' = [pkgfiles EXCEPT ![CurDep] = file]
    /\ probed' = loadDepProbes(FALSE)
    /\ seen' = seen \cup {CurDep}
    /\ mapErr' = <<PkgName(CurDep), PkgName(Top.pkg)>>
    /\ stack' = <<>>
    /\ mapState' = "failed"
    /\ UNCHANGED <<rootDeps, undo, m, vlog, notMap>>

\* process: the dependency is loaded, added to the map and recursed into
processDep ==
    /\ InLoop
    /\ ~Seen(seen, CurDep)
    /\ \E file \in PkgFiles(CurDep) :
        /\ FileFor(CurDep, file)
        /\ ~loadDepFails(file)
        /\ pkgfiles' = [pkgfiles EXCEPT ![CurDep] = file]
        /\ m' = addRewriteForDep(CurDep, file, m, undo, Top.rootPackage)
        /\ vlog' = vlog \cup addRewriteLogs(CurDep, file, m, undo, Top.rootPackage)
    /\ \E inVendor \in BOOLEAN : probed' = loadDepProbes(inVendor)
    /\ seen' = seen \cup {CurDep}
    /\ stack' = Append(stack, [pkg |-> CurDep, i |-> 1, rootPackage |-> FALSE])
    /\ UNCHANGED <<rootDeps, undo, mapState, mapErr, notMap>>

\* process: the loop is over, return nil to the caller
processReturn ==
    /\ mapState = "building"
    /\ stack # <<>>
    /\ Top.i > Len(Dependencies(Top.pkg))
    /\ IF Len(stack) = 1
       THEN /\ stack' = <<>>
            /\ mapState' = "built"
       ELSE /\ stack' = Advance
            /\ mapState' = mapState
    /\ UNCHANGED <<rootDeps, pkgfiles, undo, seen, m, mapErr, vlog, probed, notMap>>

NextMap ==
    \/ buildRewriteMapping
    \/ processSeen
    \/ processLoadFails
    \/ processDep
    \/ processReturn

SpecMap == InitMap /\ [][NextMap]_vars

\* buildRewriteMapping runs in one goroutine that is never suspended for
\* good: a step that can be taken is taken
SpecMapFair == SpecMap /\ WF_vars(NextMap)

\* ------------------------------------------------------------------------
\* Claims about buildRewriteMapping
\* ------------------------------------------------------------------------

\* the direct dependencies of the root package
Direct == Range(rootDeps)

\* a forward map has been built without an error
BuiltForward == mapState = "built" /\ ~undo

\* d declares the origin path p
Declares(d, p) == Read(d) /\ pkgfiles[d].found /\ p # NoImport /\ pkgfiles[d].dvcs = p

\* the hashes the descriptor of h lists
Listed(h) == IF Read(h) THEN Range(pkgfiles[h].deps) ELSE {}

\* the hashes reached from the set S along the descriptors read
RECURSIVE ReachedFrom(_)
ReachedFrom(S) ==
    LET T == S \cup UNION {Listed(h) : h \in S}
    IN  IF T = S THEN S ELSE ReachedFrom(T)

\* no descriptor that was read depends on itself
Acyclic == \A h \in Hashes : h \notin ReachedFrom(Listed(h))

\* d1 is the direct dependency of the root that declares p, and d2, a
\* dependency of d1 that is not a direct dependency of the root, declares p
DirectAndTransitive(d1, d2, p) ==
    /\ d1 \in Direct /\ Declares(d1, p)
    /\ \A d \in Direct : Declares(d, p) => d = d1
    /\ d2 \notin Direct /\ d2 \in Range(pkgfiles[d1].deps) /\ Declares(d2, p)

\* C2: when the root has a direct dependency D1 declaring the origin path P
\* and a transitive dependency D2, a dependency of D1, declares P as well,
\* the entry for P of the map that was built (for an acyclic graph) is
\* D1's canonical path gx/ipfs/<D1.hash>/<D1.name>.
C2_DirectEntryWins ==
    \A d1, d2 \in Hashes : \A p \in DvcsImports :
        BuiltForward /\ Acyclic /\ DirectAndTransitive(d1, d2, p)
            => p \in DOMAIN m /\ m[p] = Canonical(d1)

\* C3: for every direct dependency D of the root declaring the origin path
\* P, the entry for P of the map that was built (for an acyclic graph) is
\* the canonical path of a direct dependency of the root, also when D was
\* visited before as a transitive dependency.
C3_DirectDeclaredEntryIsDirect ==
    \A d \in Hashes : \A p \in DvcsImports :
        BuiltForward /\ Acyclic /\ d \in Direct /\ Declares(d, p)
            => p \in DOMAIN m /\ m[p] \in {Canonical(x) : x \in Direct}

\* ------------------------------------------------------------------------
\* The publisher: Importer.GxPublishGoPackage
\* ------------------------------------------------------------------------

RepoR == <<"github.com", "u", "r">>
RepoA == <<"github.com", "u", "a">>
RepoB == <<"github.com", "u", "b">>
RepoC == <<"github.com", "u", "c">>
RepoU == <<"github.com", "u", "r-util">>

PRepos == {RepoR, RepoA, RepoB, RepoC, RepoU}

GodepsDir == <<"Godeps", "_workspace", "src">>

\* the hash PublishPackage returns for the tree of a path
PublishedHash(p) ==
    CASE p = RepoR -> "QmR"
      [] p = RepoA -> "QmA"
      [] p = RepoB -> "QmB"
      [] p = RepoC -> "QmC"
      [] p = RepoU -> "QmU"
      [] OTHER -> "QmX"

\* the hash a pre-resolved map gives
PreHash == "QmPre"

\* the name of a package: the last segment of its import path
LastSegment(p) == p[Len(p)]

\* the import paths that can appear in the source files of the tree of p
RawImports(p) ==
    (PRepos \ {p})
        \cup {RepoC \o <<"s1">>, <<"fmt">>, p \o <<"x">>, p \o GodepsDir \o RepoC}

\* the subsets of S of at most n elements
RECURSIVE SubsetsUpTo(_, _)
SubsetsUpTo(S, n) ==
    IF n = 0 THEN {{}}
    ELSE LET T == SubsetsUpTo(S, n - 1)
         IN  T \cup {t \cup {x} : t \in T, x \in S}

\* the import declarations of a tree: the directory ("" is the directory of
\* the package, "sub" and "vendor" are subdirectories) and the import path
ImportSites(p) ==
    [dir : {"", "sub"}, imp : RawImports(p)]
        \cup {[dir |-> "vendor", imp |-> RepoC]}

\* the trees go get can leave for p: the imports, whether Import or
\* ReadDir fails with an error that is returned, and whether Import of the
\* package directory fails with NoGoError, a scanner.ErrorList or a
\* MultiplePackageError
Workspaces(p) ==
    {w \in [sites : SubsetsUpTo(ImportSites(p), MaxImports),
            hard : BOOLEAN, soft : BOOLEAN] :
        w.hard => (w.sites = {} /\ ~w.soft)}

\* skipDir
skipDir(name) == name \in {"Godeps", "vendor", ".git"}

\* depsToVendorForPackage: the imports of the directory `path` that are kept
DirDeps(path, imps) ==
    LET gdeps == getBaseDVCS(path) \o GodepsDir
        strip(child) == IF HasSlashPrefix(child, gdeps)
                        THEN SubSeq(child, Len(gdeps) + 1, Len(child))
                        ELSE child
    IN  {c \in {getBaseDVCS(strip(child)) : child \in imps} :
            pathIsNotStdlib(c) /\ ~StrHasPrefix(c, path)}

\* depsToVendorForPackage(path) on the tree w: the imports of the package
\* directory, unless Import failed, and of the subdirectories skipDir
\* does not skip
depsToVendorForPackage(path, w) ==
    LET imps(dir) == {st.imp : st \in {x \in w.sites : x.dir = dir}}
        subdirs == {st.dir : st \in w.sites} \ {""}
    IN  (IF w.soft THEN {} ELSE DirDeps(path, imps("")))
            \cup UNION {DirDeps(path \o <<d>>, imps(d)) :
                            d \in {x \in subdirs : ~skipDir(x)}}

\* what depsToVendorForPackage can return without an error, for each path
VendorSets ==
    [p \in PRepos |->
        {depsToVendorForPackage(p, w) : w \in {x \in Workspaces(p) : ~x.hard}}]

\* the orders in which the keys of a Go map can be ranged over
Orders(S) == {o \in [1..Cardinality(S) -> S] : Range(o) = S}

Found(p) == p \in DOMAIN vendorDeps

VendorEdges ==
    LET RECURSIVE Sum(_)
        Sum(S) == IF S = {} THEN 0
                  ELSE LET x == CHOOSE y \in S : TRUE
                       IN  Cardinality(vendorDeps[x]) + Sum(S \ {x})
    IN  Sum(DOMAIN vendorDeps)

Dependency(hash, name) == [Hash |-> hash, Name |-> name]

PreMaps ==
    {EmptyMap,
     [x \in {RepoC} |-> PreHash],
     [x \in {RepoC \o <<"s1">>} |-> PreHash],
     [x \in {RepoR \o <<"cmd", "x">>} |-> PreHash]}

Args == {RepoR, RepoR \o <<"cmd", "x">>}

\* the map builder before it is started
IdleMap ==
    /\ rootDeps = <<>>
    /\ pkgfiles = [h \in Hashes |-> NoFile]
    /\ undo = FALSE
    /\ seen = {}
    /\ m = EmptyMap
    /\ stack = <<>>
    /\ mapState = "idle"
    /\ mapErr = <<>>
    /\ vlog = {}
    /\ probed = <<>>

InitPub ==
    /\ IdleFix
    /\ IdleTr
    /\ IdleMap
    /\ IdleCanon
    /\ IdleRw
    /\ arg \in Args
    /\ preMap \in PreMaps
    /\ pkgs = EmptyMap
    /\ pstack = <<>>
    /\ call = <<>>
    /\ pubState = "idle"
    /\ result = <<>>
    /\ vendorDeps = EmptyMap
    /\ publishCalls = <<>>
    /\ saved = EmptyMap
    /\ fetched = {}
    /\ gotten = {}

\* return dep, nil to the caller: the outermost call ends, an inner call
\* makes the loop of its caller append the dependency and go on
ReturnDep(callers, dep) ==
    IF callers = <<>>
    THEN /\ pstack' = <<>>
         /\ pubState' = "done"
         /\ result' = dep
    ELSE /\ pstack' = [callers EXCEPT ![Len(callers)] =
                          [@ EXCEPT !.pkgDeps = Append(@, dep), !.n = @ + 1]]
         /\ pubState' = pubState
         /\ result' = result

\* return nil, err: every caller returns the error in its turn
ReturnErr ==
    /\ pstack' = <<>>
    /\ pubState' = "failed"
    /\ result' = <<>>

\* main: importer.GxPublishGoPackage(arg)
publishStart ==
    /\ pubState = "idle"
    /\ pubState' = "running"
    /\ call' = arg
    /\ UNCHANGED <<arg, preMap, pkgs, pstack, result, vendorDeps, publishCalls,
                   saved, fetched, gotten, notPub>>

Calling == pubState = "running" /\ call # <<>>

\* a publisher that never finds a path in pkgs
Memoized_Never(memo, path) == FALSE

\* GxPublishGoPackage: d, ok := i.pkgs[imppath]
Memoized(memo, path) == path \in DOMAIN memo

imppath == getBaseDVCS(call)

\* a publisher that never finds a path in preMap
PreMapped_Never(pre, path) == FALSE

\* GxPublishGoPackage: hash, ok := i.preMap[imppath]
PreMapped(pre, path) == path \in DOMAIN pre

\* GxPublishGoPackage: the path is in pkgs, its Dependency is returned
publishMemo ==
    /\ Calling
    /\ Memoized(pkgs, imppath)
    /\ ReturnDep(pstack, pkgs[imppath])
    /\ call' = <<>>
    /\ UNCHANGED <<arg, preMap, pkgs, vendorDeps, publishCalls, saved, fetched,
                   gotten, notPub>>

\* GxPublishGoPackage: the path is in preMap, the package is fetched by its
\* hash and recorded
publishPreMapped ==
    /\ Calling
    /\ ~Memoized(pkgs, imppath)
    /\ PreMapped(preMap, imppath)
    /\ fetched' = fetched \cup {preMap[imppath]}
    /\ call' = <<>>
    /\ \E ok \in BOOLEAN :
        IF ok
        THEN LET dep == Dependency(preMap[imppath], "pre")
             IN  /\ pkgs' = MapPut(pkgs, imppath, dep)
                 /\ ReturnDep(pstack, dep)
        ELSE /\ pkgs' = pkgs
             /\ ReturnErr
    /\ UNCHANGED <<arg, preMap, vendorDeps, publishCalls, saved, gotten, notPub>>

NeedsSource ==
    /\ Calling
    /\ ~Memoized(pkgs, imppath)
    /\ ~PreMapped(preMap, imppath)

\* GxPublishGoPackage: go get, LoadPackageFile, prompt, InitPkg or
\* depsToVendorForPackage fails and the error is returned
publishSetupFails ==
    /\ NeedsSource
    /\ gotten' = gotten \cup {imppath}
    /\ call' = <<>>
    /\ ReturnErr
    /\ UNCHANGED <<arg, preMap, pkgs, vendorDeps, publishCalls, saved, fetched,
                   notPub>>

\* GxPublishGoPackage: the source is fetched, the descriptor loaded or
\* initialised, its dependencies wiped, the dependencies to vendor found
\* and the loop over them entered
publishEnter ==
    /\ NeedsSource
    /\ Len(pstack) < MaxDepth
    /\ gotten' = gotten \cup {imppath}
    /\ call' = <<>>
    /\ \E found \in VendorSets[imppath] :
        /\ IF Found(imppath)
           THEN found = vendorDeps[imppath] /\ vendorDeps' = vendorDeps
           ELSE /\ VendorEdges + Cardinality(found) <= MaxVendorEdges
                /\ vendorDeps' = MapPut(vendorDeps, imppath, found)
        /\ \E depsToVendor \in Orders(found) :
            pstack' = Append(pstack, [imppath |-> imppath, deps |-> depsToVendor,
                                      n |-> 1, pkgDeps |-> <<>>])
    /\ UNCHANGED <<arg, preMap, pkgs, pubState, result, publishCalls, saved,
                   fetched, notPub>>

PTop == pstack[Len(pstack)]

InPublishLoop ==
    /\ pubState = "running"
    /\ call = <<>>
    /\ pstack # <<>>
    /\ PTop.n <= Len(PTop.deps)

child == PTop.deps[PTop.n]

\* the loop skips a child that has the path of the package as a prefix
skipsChild(c, path) == StrHasPrefix(c, path)

\* GxPublishGoPackage, loop: strings.HasPrefix(child, imppath), continue
publishSkipChild ==
    /\ InPublishLoop
    /\ skipsChild(child, PTop.imppath)
    /\ pstack' = [pstack EXCEPT ![Len(pstack)].n = @ + 1]
    /\ UNCHANGED <<arg, preMap, pkgs, call, pubState, result, vendorDeps,
                   publishCalls, saved, fetched, gotten, notPub>>

\* GxPublishGoPackage, loop: i.GxPublishGoPackage(child)
publishChild ==
    /\ InPublishLoop
    /\ ~skipsChild(child, PTop.imppath)
    /\ call' = child
    /\ UNCHANGED <<arg, preMap, pkgs, pstack, pubState, result, vendorDeps,
                   publishCalls, saved, fetched, gotten, notPub>>

\* a loop that can be left before every child was processed
loopOver_Early(frame) == TRUE

\* GxPublishGoPackage: the range loop over depsToVendor is over
loopOver(frame) == frame.n > Len(frame.deps)

LoopDone ==
    /\ pubState = "running"
    /\ call = <<>>
    /\ pstack # <<>>
    /\ loopOver(PTop)

\* the steps after the loop, in the order of the code
FinishSteps == <<"save", "abs", "rewrite", "gxignore", "publish">>

\* the steps that were reached when the step numbered failing fails
\* (failing = 0: none fails)
Reached(step, failing) ==
    \E k \in 1..Len(FinishSteps) :
        FinishSteps[k] = step /\ (failing = 0 \/ k <= failing)

\* GxPublishGoPackage: the descriptor is saved, the imports rewritten, the
\* package published and recorded in pkgs
publishFinish ==
    /\ LoopDone
    /\ LET path == PTop.imppath
           dep  == Dependency(PublishedHash(path), LastSegment(path))
       IN  /\ saved' = MapPut(saved, path, PTop.pkgDeps)
           /\ publishCalls' = Append(publishCalls, path)
           /\ pkgs' = MapPut(pkgs, path, dep)
           /\ ReturnDep(SubSeq(pstack, 1, Len(pstack) - 1), dep)
    /\ UNCHANGED <<arg, preMap, call, vendorDeps, fetched, gotten, notPub>>

\* GxPublishGoPackage: one of the steps after the loop fails
publishFinishFails ==
    /\ LoopDone
    /\ \E failing \in 1..Len(FinishSteps) :
        /\ saved' = IF Reached("abs", failing)
                    THEN MapPut(saved, PTop.imppath, PTop.pkgDeps)
                    ELSE saved
        /\ publishCalls' = IF Reached("publish", failing)
                           THEN Append(publishCalls, PTop.imppath)
                           ELSE publishCalls
    /\ ReturnErr
    /\ UNCHANGED <<arg, preMap, pkgs, call, vendorDeps, fetched, gotten, notPub>>

NextPub ==
    \/ publishStart
    \/ publishMemo
    \/ publishPreMapped
    \/ publishSetupFails
    \/ publishEnter
    \/ publishSkipChild
    \/ publishChild
    \/ publishFinish
    \/ publishFinishFails

SpecPub == InitPub /\ [][NextPub]_vars

\* ------------------------------------------------------------------------
\* Claims about GxPublishGoPackage
\* ------------------------------------------------------------------------

\* the number of times x occurs in the sequence s
Count(s, x) == Cardinality({i \in 1..Len(s) : s[i] = x})

\* the children of p the loop of GxPublishGoPackage(p) calls itself for
Children(p) ==
    IF Found(p) THEN {c \in vendorDeps[p] : ~skipsChild(c, p)} ELSE {}

\* the paths reached from the paths of S through the children of the
\* paths that are published from their source (not taken from preMap)
RECURSIVE ReachedPaths(_)
ReachedPaths(S) ==
    LET T == S \cup UNION {Children(p) : p \in {x \in S : x \notin DOMAIN preMap}}
    IN  IF T = S THEN S ELSE ReachedPaths(T)

\* the reachable paths that have to be published from their source
PublishSet ==
    {p \in ReachedPaths({getBaseDVCS(arg)}) : p \notin DOMAIN preMap}

\* C1: within one invocation PublishPackage is called at most once for a
\* canonical import path; when the invocation succeeds it was called
\* exactly once for every reachable path that is published from source and
\* for no other path, and every package that depends on a path has
\* persisted the one memoized Dependency of that path (in the diamond
\* root->A, root->B, A->C, B->C: C is published once and A and B both hold
\* the Dependency of C).
C1_PublishedOnce ==
    /\ \A p \in PRepos : Count(publishCalls, p) <= 1
    /\ pubState = "done" =>
        /\ \A p \in PRepos :
            Count(publishCalls, p) = IF p \in PublishSet THEN 1 ELSE 0
        /\ \A p \in DOMAIN saved : \A c \in Children(p) :
            c \in DOMAIN pkgs /\ pkgs[c] \in Range(saved[p])

\* the diamond has been published
C1_DiamondPublished ==
    /\ pubState = "done"
    /\ preMap = EmptyMap
    /\ RepoR \in DOMAIN vendorDeps /\ vendorDeps[RepoR] = {RepoA, RepoB}
    /\ RepoA \in DOMAIN vendorDeps /\ vendorDeps[RepoA] = {RepoC}
    /\ RepoB \in DOMAIN vendorDeps /\ vendorDeps[RepoB] = {RepoC}
    /\ Count(publishCalls, RepoC) = 1
    /\ saved[RepoA] = <<pkgs[RepoC]>>
    /\ saved[RepoB] = <<pkgs[RepoC]>>

\* the child c has finished its publish before p is published, or was fetched
FinishedBefore(c, p) ==
    /\ c \in DOMAIN pkgs
    /\ \/ pkgs[c].Hash \in fetched
       \/ \E j \in 1..Len(publishCalls) :
            /\ publishCalls[j] = c
            /\ pkgs[c].Hash = PublishedHash(c)
            /\ \A k \in 1..Len(publishCalls) : publishCalls[k] = p => j < k

\* C10: publication is bottom-up: a package is handed to PublishPackage
\* only after its descriptor was persisted, and the persisted dependency
\* list holds, for every child the loop called GxPublishGoPackage for, the
\* Dependency recorded in pkgs by the publish or the fetch of that child,
\* which had finished before.
C10_BottomUp ==
    /\ \A k \in 1..Len(publishCalls) : publishCalls[k] \in DOMAIN saved
    /\ \A p \in DOMAIN saved :
        /\ \A c \in Children(p) : FinishedBefore(c, p)
        /\ Range(saved[p]) = {pkgs[c] : c \in Children(p) \cap DOMAIN pkgs}

\* a package with a dependency that has a dependency of its own, all
\* published, and a package whose dependency was fetched by its hash
C10_ChainPublished ==
    /\ pubState = "done"
    /\ \E p, c, g \in DOMAIN saved :
        /\ c \in Children(p) /\ g \in Children(c)
        /\ saved[p] = <<pkgs[c]>> /\ saved[c] = <<pkgs[g]>>
        /\ Count(publishCalls, p) = 1 /\ Count(publishCalls, g) = 1

\* ------------------------------------------------------------------------
\* Canonicalization: getBaseDVCS as the key of pkgs and preMap
\* ------------------------------------------------------------------------

CanonSegs == {"example.org", "repo", "sub", "pkg"}

\* the import paths of at most MaxSegs segments
CanonPaths == UNION {[1..k -> CanonSegs] : k \in 1..MaxSegs}

\* the sibling of a segment: another directory or package name
Sibling(seg) ==
    CASE seg = "sub" -> "sub2"
      [] seg = "pkg" -> "pkg2"
      [] seg = "repo" -> "repo2"
      [] OTHER -> "example.com"

\* the path that agrees with p before its segment k and has the siblings
\* of the segments of p from k on
SiblingFrom(p, k) == [i \in 1..Len(p) |-> IF i < k THEN p[i] ELSE Sibling(p[i])]

InitCanon ==
    /\ IdleFix
    /\ IdleTr
    /\ IdleMap
    /\ IdlePub
    /\ IdleRw
    /\ \E p \in CanonPaths : \E k \in 1..(Len(p) + 1) :
        canonIn = <<p, SiblingFrom(p, k)>>
    /\ canonKey = <<>>

\* GxPublishGoPackage is called with each path: imppath = getBaseDVCS(imppath)
canonicalize ==
    /\ canonKey = <<>>
    /\ canonIn # <<>>
    /\ canonKey' = <<getBaseDVCS(canonIn[1]), getBaseDVCS(canonIn[2])>>
    /\ UNCHANGED <<canonIn, notCanon>>

NextCanon == canonicalize

SpecCanon == InitCanon /\ [][NextCanon]_vars

Canonicalized == canonKey # <<>>

Example1 == <<"example.org", "repo", "sub", "pkg">>
Example2 == <<"example.org", "repo", "sub2", "pkg2">>

\* C9 (as claimed): getBaseDVCS maps example.org/repo/sub/pkg and
\* example.org/repo/sub2/pkg2 to example.org/repo, one memo key.
C9_ExamplesShareRepoKey ==
    Canonicalized /\ canonIn = <<Example1, Example2>>
        => /\ canonKey[1] = <<"example.org", "repo">>
           /\ canonKey[2] = <<"example.org", "repo">>

\* the first n segments of a path, the whole path when it has fewer
FirstSegs(p, n) == SubSeq(p, 1, IF Len(p) < n THEN Len(p) ELSE n)

\* C9 (amended): getBaseDVCS keeps exactly the first three segments of a
\* path: two paths are the same memo key if and only if they agree on
\* their first three segments, and example.org/repo/sub/pkg and
\* example.org/repo/sub2/pkg2 are the two keys example.org/repo/sub and
\* example.org/repo/sub2.
C9_KeyIsFirstThreeSegments ==
    Canonicalized =>
        /\ \A i \in 1..2 : canonKey[i] = FirstSegs(canonIn[i], 3)
        /\ (canonKey[1] = canonKey[2])
               <=> (FirstSegs(canonIn[1], 3) = FirstSegs(canonIn[2], 3))
        /\ canonIn = <<Example1, Example2>> =>
               /\ canonKey[1] = <<"example.org", "repo", "sub">>
               /\ canonKey[2] = <<"example.org", "repo", "sub2">>

\* two different sub-packages of one three-segment repository got one key
C9_SubPackagesShareKey ==
    /\ Canonicalized
    /\ Len(canonIn[1]) = 4
    /\ canonIn[1] # canonIn[2]
    /\ canonKey[1] = canonKey[2]
    /\ canonKey[1] = SubSeq(canonIn[1], 1, 3)

\* ------------------------------------------------------------------------
\* The import rewriter: RewriteImports and rewriteImportsInFile, called by
\* doRewrite with its translate function rwm and its filter
\* ------------------------------------------------------------------------

\* runtime.NumCPU(): the number of worker goroutines
NumCPU == 2

\* the entries below the root in the order fs.Walk visits them
Tree ==
    << [rel |-> <<".git">>, dir |-> TRUE],
       [rel |-> <<".git", "g.go">>, dir |-> FALSE],
       [rel |-> <<"a.go">>, dir |-> FALSE],
       [rel |-> <<"b.go">>, dir |-> FALSE],
       [rel |-> <<"c.go">>, dir |-> FALSE],
       [rel |-> <<"doc.md">>, dir |-> FALSE],
       [rel |-> <<"sub">>, dir |-> TRUE],
       [rel |-> <<"sub", "vendor">>, dir |-> TRUE],
       [rel |-> <<"sub", "vendor", "n.go">>, dir |-> FALSE],
       [rel |-> <<"vendor">>, dir |-> TRUE],
       [rel |-> <<"vendor", "v.go">>, dir |-> FALSE] >>

FileRels == {Tree[i].rel : i \in {j \in 1..Len(Tree) : ~Tree[j].dir}}

\* the names that end in ".go"
GoNames == {"a.go", "b.go", "c.go", "g.go", "n.go", "v.go"}

\* the names that start with ".git" and those that start with "vendor"
GitNames == {".git"}
VendorNames == {"vendor"}

\* strings.HasSuffix(path, ".go")
IsGo(rel) == rel[Len(rel)] \in GoNames

\* strings.HasPrefix(rel, ".git") || strings.HasPrefix(rel, "vendor")
SkipsDir(rel) == rel[1] \in GitNames \cup VendorNames

\* doRewrite: filter
rwFilter(rel) == IsGo(rel)

\* w.Step() reaches the entry: no directory above it was skipped
Visited(i) ==
    ~\E j \in 1..(i - 1) :
        /\ Tree[j].dir
        /\ SkipsDir(Tree[j].rel)
        /\ HasSlashPrefix(Tree[i].rel, Tree[j].rel)

\* the body of the walk loop sends the entry to the workers
Candidate(i) ==
    /\ Visited(i)
    /\ ~SkipsDir(Tree[i].rel)
    /\ IsGo(Tree[i].rel)
    /\ rwFilter(Tree[i].rel)

Candidates == {Tree[i].rel : i \in {j \in 1..Len(Tree) : Candidate(j)}}

\* a walk that goes straight to the last entry that is sent
NextCandidate_Last(pos) ==
    LET is == {i \in pos..Len(Tree) : Candidate(i)}
    IN  IF is = {} THEN 0 ELSE CHOOSE i \in is : \A j \in is : i >= j

\* the next entry from pos on that is sent, 0 when the walk ends first
NextCandidate(pos) ==
    LET is == {i \in pos..Len(Tree) : Candidate(i)}
    IN  IF is = {} THEN 0 ELSE CHOOSE i \in is : \A j \in is : i <= j

\* a file is what precedes its import block, the paths of the block, and
\* what follows the block; ok: parser.ParseFile accepts it
HeadCanon == <<"package", " ", "p", "\n">>
HeadLoose == <<"package", " ", " ", "p", "\n">>
TailLoose == <<"\n", "func", " ", " ", "f">>

Other == <<"fmt">>

BadFile == [ok |-> FALSE, head |-> <<"pkg">>, imports |-> <<>>, tail |-> <<>>]

Src(h, i) == [ok |-> TRUE, head |-> h, imports |-> i, tail |-> TailLoose]

Sources ==
    { BadFile,
      Src(HeadLoose, <<>>),
      Src(HeadCanon, <<Other>>),
      Src(HeadCanon, <<PathA>>),
      Src(HeadLoose, <<PathA>>),
      Src(HeadCanon, <<PathA \o <<"x">>, Other>>),
      Src(HeadCanon, <<PathB \o <<"x">>>>) }

\* the trees RewriteImports is called on
Trees ==
    {t \in [FileRels -> Sources] :
        /\ t[<<"c.go">>] \in {BadFile, Src(HeadCanon, <<PathA>>)}
        /\ t[<<"doc.md">>] = BadFile
        /\ t[<<".git", "g.go">>] = Src(HeadCanon, <<PathA>>)
        /\ t[<<"vendor", "v.go">>] = Src(HeadCanon, <<PathA>>)
        /\ t[<<"sub", "vendor", "n.go">>] = Src(HeadLoose, <<>>)}

\* the maps doRewrite is called with
RwMaps ==
    { MapPut(EmptyMap, PathB, Canonical("h2")),
      MapPut(MapPut(EmptyMap, PathA, Canonical("h1")), PathB, Canonical("h2")) }

\* printer.Fprint renders the head in canonical form: one space between
\* tokens
RECURSIVE Fprint(_)
Fprint(toks) ==
    IF Len(toks) < 2 THEN toks
    ELSE IF toks[1] = " " /\ toks[2] = " " THEN Fprint(Tail(toks))
    ELSE <<toks[1]>> \o Fprint(Tail(toks))

\* the path segments in the order of their strings
SegOrder ==
    <<"a", "b", "d", "fmt", "gx", "h1", "h2", "h3", "ipfs", "n1", "n2", "n3", "x">>

SegRank(s) == CHOOSE i \in 1..Len(SegOrder) : SegOrder[i] = s

\* p < q as strings
RECURSIVE PathLess(_, _)
PathLess(p, q) ==
    IF q = <<>> THEN FALSE
    ELSE IF p = <<>> THEN TRUE
    ELSE IF p[1] = q[1] THEN PathLess(Tail(p), Tail(q))
    ELSE SegRank(p[1]) < SegRank(q[1])

\* the place of p in a sorted list without duplicates
RECURSIVE Insert(_, _)
Insert(p, s) ==
    IF s = <<>> THEN <<p>>
    ELSE IF p = s[1] THEN s
    ELSE IF PathLess(p, s[1]) THEN <<p>> \o s
    ELSE <<s[1]>> \o Insert(p, Tail(s))

\* ast.SortImports: sorts the block by path and drops duplicates
RECURSIVE SortImports(_)
SortImports(s) ==
    IF s = <<>> THEN <<>> ELSE Insert(s[1], SortImports(Tail(s)))

\* doRewrite: rwm(in); the results and the map each leaves behind, one per
\* key the range over the map can meet first
rwm(mapping, in) ==
    IF in \in DOMAIN mapping
    THEN {[out |-> mapping[in], map |-> mapping]}
    ELSE LET ks == {k \in DOMAIN mapping : HasSlashPrefix(in, k)}
         IN  IF ks # {}
             THEN {[out |-> ReplacePrefix(in, k, mapping[k]),
                    map |-> MapPut(mapping, in, ReplacePrefix(in, k, mapping[k]))] :
                        k \in ks}
             ELSE {[out |-> in, map |-> MapPut(mapping, in, in)]}

\* the loop over file.Imports: rw is called for each import in order
RECURSIVE translateAll(_, _)
translateAll(mapping, imports) ==
    IF imports = <<>> THEN {[imps |-> <<>>, map |-> mapping]}
    ELSE UNION {
            {[imps |-> <<r.out>> \o t.imps, map |-> t.map] :
                t \in translateAll(r.map, Tail(imports))} :
            r \in rwm(mapping, imports[1])}

\* a rewriter that writes every file it has translated
Changed_Always(old, new) == TRUE

\* changed: rw returned a path that differs from the import
Changed(old, new) == \E i \in 1..Len(old) : new[i] # old[i]

\* a rewriter that returns an error when a file failed
RewriteResult_Err(errors) == IF errors = <<>> THEN "nil" ELSE "error"

\* RewriteImports returns nil once the workers are done
RewriteResult(errors) == "nil"

\* <file>.temp after os.Create
EmptyFile == [ok |-> FALSE, head |-> <<>>, imports |-> <<>>, tail |-> <<>>]

\* buf[:newImportsEnd]: the printed head and the sorted import block
Buffer(f, imps) ==
    [ok |-> FALSE, head |-> Fprint(f.head), imports |-> SortImports(imps), tail |-> <<>>]

\* a copy that stops before the rest of the source
Spliced_NoTail(f, imps) ==
    [ok |-> FALSE, head |-> Fprint(f.head), imports |-> SortImports(imps), tail |-> <<>>]

\* buf[:newImportsEnd] followed by the source from oldImportsEnd on
Spliced(f, imps) ==
    [ok |-> TRUE, head |-> Fprint(f.head), imports |-> SortImports(imps), tail |-> f.tail]

Remove(f, k) == [x \in (DOMAIN f) \ {k} |-> f[x]]

Idle == [pc |-> "recv", file |-> <<>>, imps |-> <<>>]

InitRw ==
    /\ IdleFix
    /\ IdleTr
    /\ IdleMap
    /\ IdlePub
    /\ IdleCanon
    /\ rwmap0 \in RwMaps
    /\ rwmap = rwmap0
    /\ files \in Trees
    /\ orig = files
    /\ tmpfiles = EmptyMap
    /\ walkPos = 1
    /\ closed = FALSE
    /\ workers = [w \in 1..NumCPU |-> Idle]
    /\ rwLock = 0
    /\ rwErrors = <<>>
    /\ rwState = "walking"
    /\ rwResult = "none"
    /\ created = {}
    /\ renamed = {}
    /\ untouched = {}
    /\ faults = 0
    /\ received = <<>>

\* rewriteImportsInFile returns to the worker loop, which prints an error
Returns(w, err) ==
    /\ workers' = [workers EXCEPT ![w] = Idle]
    /\ rwErrors' = IF err THEN Append(rwErrors, workers[w].file) ELSE rwErrors

\* torewrite <- w.Path(): the walk hands the next file to a worker that
\* waits in `range torewrite`
walkSend(w) ==
    /\ rwState = "walking"
    /\ NextCandidate(walkPos) # 0
    /\ workers[w].pc = "recv"
    /\ workers' = [workers EXCEPT ![w] =
            [pc |-> "parse", file |-> Tree[NextCandidate(walkPos)].rel, imps |-> <<>>]]
    /\ walkPos' = NextCandidate(walkPos) + 1
    /\ received' = Append(received, Tree[NextCandidate(walkPos)].rel)
    /\ UNCHANGED <<rwmap0, rwmap, files, orig, tmpfiles, closed, rwLock, rwErrors,
                   rwState, rwResult, created, renamed, untouched, faults, notRw>>

\* the walk is over: close(torewrite), then wg.Wait()
walkClose ==
    /\ rwState = "walking"
    /\ NextCandidate(walkPos) = 0
    /\ walkPos' = Len(Tree) + 1
    /\ closed' = TRUE
    /\ rwState' = "waiting"
    /\ UNCHANGED <<received, rwmap0, rwmap, files, orig, tmpfiles, workers, rwLock, rwErrors,
                   rwResult, created, renamed, untouched, faults, notRw>>

\* a channel whose receivers are never told that it was closed
rangeEnds_Never(isClosed) == FALSE

\* for path := range torewrite: the loop ends when the channel is closed
\* (and empty, which a channel without a buffer always is)
rangeEnds(isClosed) == isClosed

\* `range torewrite` ends: wg.Done()
workerExit(w) ==
    /\ rangeEnds(closed)
    /\ workers[w].pc = "recv"
    /\ workers' = [workers EXCEPT ![w].pc = "done"]
    /\ UNCHANGED <<received, rwmap0, rwmap, files, orig, tmpfiles, walkPos, closed, rwLock,
                   rwErrors, rwState, rwResult, created, renamed, untouched, faults,
                   notRw>>

\* wg.Wait() returns; return nil
rewriteReturn ==
    /\ rwState = "waiting"
    /\ \A w \in 1..NumCPU : workers[w].pc = "done"
    /\ rwState' = "returned"
    /\ rwResult' = RewriteResult(rwErrors)
    /\ UNCHANGED <<received, rwmap0, rwmap, files, orig, tmpfiles, walkPos, closed, workers,
                   rwLock, rwErrors, created, renamed, untouched, faults, notRw>>

\* parser.ParseFile(.., ImportsOnly); a file without imports is left alone
parseFile(w) ==
    /\ workers[w].pc = "parse"
    /\ LET f == files[workers[w].file]
       IN  IF ~f.ok THEN Returns(w, TRUE)
           ELSE IF f.imports = <<>> THEN Returns(w, FALSE)
           ELSE /\ workers' = [workers EXCEPT ![w].pc = "lock"]
                /\ UNCHANGED rwErrors
    /\ UNCHANGED <<received, rwmap0, rwmap, files, orig, tmpfiles, walkPos, closed, rwLock,
                   rwState, rwResult, created, renamed, untouched, faults, notRw>>

\* a mutex that is given to whoever asks
Free_Always(l) == TRUE

\* sync.Mutex: Lock returns when no goroutine holds the mutex
Free(l) == l = 0

\* rwLock.Lock()
lock(w) ==
    /\ workers[w].pc = "lock"
    /\ Free(rwLock)
    /\ rwLock' = w
    /\ workers' = [workers EXCEPT ![w].pc = "translate"]
    /\ UNCHANGED <<received, rwmap0, rwmap, files, orig, tmpfiles, walkPos, closed, rwErrors,
                   rwState, rwResult, created, renamed, untouched, faults, notRw>>

\* a mutex that stays with the goroutine that unlocks it
Unlock_Keep(l) == l

\* rwLock.Unlock()
Unlock(l) == 0

\* the loop that calls rw for every import, rwLock.Unlock(), and the
\* return when nothing changed; or strconv.Unquote fails for the import
\* numbered k + 1, after rw was called for the k imports before it:
\* rwLock.Unlock() and the error is returned
translate(w) ==
    /\ workers[w].pc = "translate"
    /\ rwLock = w
    /\ LET file == workers[w].file
           f == files[file]
       IN  \/ \E t \in translateAll(rwmap, f.imports) :
                /\ rwmap' = t.map
                /\ rwLock' = Unlock(rwLock)
                /\ untouched' = IF t.imps = f.imports THEN untouched \cup {file}
                                ELSE untouched
                /\ IF Changed(f.imports, t.imps)
                   THEN workers' = [workers EXCEPT ![w].pc = "create", ![w].imps = t.imps]
                   ELSE workers' = [workers EXCEPT ![w] = Idle]
                /\ UNCHANGED <<rwErrors, faults>>
           \/ /\ faults < MaxFaults
              /\ faults' = faults + 1
              /\ \E k \in 0..(Len(f.imports) - 1) :
                    \E t \in translateAll(rwmap, SubSeq(f.imports, 1, k)) :
                        rwmap' = t.map
              /\ rwLock' = Unlock(rwLock)
              /\ Returns(w, TRUE)
              /\ UNCHANGED untouched
    /\ UNCHANGED <<received, rwmap0, files, orig, tmpfiles, walkPos, closed, rwState,
                   rwResult, created, renamed, notRw>>

\* the three rounds of printing and parsing that fill buf, then
\* os.Create(fi + ".temp")
create(w) ==
    /\ workers[w].pc = "create"
    /\ \/ /\ tmpfiles' = MapPut(tmpfiles, workers[w].file, EmptyFile)
          /\ created' = created \cup {workers[w].file}
          /\ workers' = [workers EXCEPT ![w].pc = "fill"]
          /\ UNCHANGED <<rwErrors, faults>>
       \/ /\ faults < MaxFaults
          /\ faults' = faults + 1
          /\ Returns(w, TRUE)
          /\ UNCHANGED <<tmpfiles, created>>
    /\ UNCHANGED <<received, rwmap0, rwmap, files, orig, walkPos, closed, rwLock, rwState,
                   rwResult, renamed, untouched, notRw>>

\* os.Open and Seek on the source, buf.WriteTo(tmp), io.Copy(tmp, src),
\* tmp.Close(); an error return leaves <file>.temp as far as it was written
fill(w) ==
    /\ workers[w].pc = "fill"
    /\ LET file == workers[w].file
           f == files[file]
       IN  \/ /\ tmpfiles' = [tmpfiles EXCEPT ![file] = Spliced(f, workers[w].imps)]
              /\ workers' = [workers EXCEPT ![w].pc = "rename"]
              /\ UNCHANGED <<rwErrors, faults>>
           \/ /\ faults < MaxFaults
              /\ faults' = faults + 1
              /\ \E left \in {EmptyFile, Buffer(f, workers[w].imps),
                              Spliced(f, workers[w].imps)} :
                    tmpfiles' = [tmpfiles EXCEPT ![file] = left]
              /\ Returns(w, TRUE)
    /\ UNCHANGED <<received, rwmap0, rwmap, files, orig, walkPos, closed, rwLock, rwState,
                   rwResult, created, renamed, untouched, notRw>>

\* os.Rename(tmppath, fi)
rename(w) ==
    /\ workers[w].pc = "rename"
    /\ LET file == workers[w].file
       IN  \/ /\ files' = [files EXCEPT ![file] = tmpfiles[file]]
              /\ tmpfiles' = Remove(tmpfiles, file)
              /\ renamed' = renamed \cup {file}
              /\ Returns(w, FALSE)
              /\ UNCHANGED faults
           \/ /\ faults < MaxFaults
              /\ faults' = faults + 1
              /\ Returns(w, TRUE)
              /\ UNCHANGED <<files, tmpfiles, renamed>>
    /\ UNCHANGED <<received, rwmap0, rwmap, orig, walkPos, closed, rwLock, rwState, rwResult,
                   created, untouched, notRw>>

NextRw ==
    \/ \E w \in 1..NumCPU : walkSend(w)
    \/ walkClose
    \/ \E w \in 1..NumCPU : workerExit(w)
    \/ rewriteReturn
    \/ \E w \in 1..NumCPU : parseFile(w)
    \/ \E w \in 1..NumCPU : lock(w)
    \/ \E w \in 1..NumCPU : translate(w)
    \/ \E w \in 1..NumCPU : create(w)
    \/ \E w \in 1..NumCPU : fill(w)
    \/ \E w \in 1..NumCPU : rename(w)

SpecRw == InitRw /\ [][NextRw]_vars

\* the Go scheduler runs a goroutine that can run, and a file operation
\* returns: a step that can be taken is taken
SpecRwFair == SpecRw /\ WF_vars(NextRw)

\* ------------------------------------------------------------------------
\* Claims about the import rewriter
\* ------------------------------------------------------------------------

Returned == rwState = "returned"

Count2(s, x) == Cardinality({i \in 1..Len(s) : s[i] = x})

\* the file holds its original tail and, sorted, what the translate
\* function returned for each of its imports: doRewrite's map keeps every
\* answer it has given
Rewritten(f) ==
    /\ files[f].ok
    /\ files[f].tail = orig[f].tail
    /\ \A p \in Range(orig[f].imports) : p \in DOMAIN rwmap
    /\ files[f].imports =
            SortImports([i \in 1..Len(orig[f].imports) |-> rwmap[orig[f].imports[i]]])

\* C4: when RewriteImports has returned and no file operation failed, it
\* has returned nil, a "rewrite error" has been printed exactly once for
\* each candidate file that does not parse and for no other file, those
\* files are as they were, and every other candidate file holds the
\* translation of its imports.
C4_ContinuesPastBadFile ==
    (Returned /\ faults = 0) =>
        /\ rwResult = "nil"
        /\ \A f \in Candidates :
            IF orig[f].ok
            THEN Count2(rwErrors, f) = 0 /\ Rewritten(f)
            ELSE Count2(rwErrors, f) = 1 /\ files[f] = orig[f]

\* three candidate files with imports to rewrite, one of them malformed:
\* one error was printed and the two others were replaced
C4_OneBadTwoRewritten ==
    /\ Returned
    /\ rwResult = "nil"
    /\ Len(rwErrors) = 1
    /\ ~orig[rwErrors[1]].ok
    /\ Cardinality(renamed \cap {<<"a.go">>, <<"b.go">>, <<"c.go">>}) = 2

\* C5: a file for whose imports translate returned each path unchanged is
\* never given a temporary file, is never renamed over, and keeps its
\* content.
C5_UnchangedFileNotWritten ==
    \A f \in untouched :
        /\ f \notin created
        /\ f \notin DOMAIN tmpfiles
        /\ f \notin renamed
        /\ files[f] = orig[f]

\* a file with imports went through translate unchanged while another file
\* of the same run was replaced
C5_UnchangedFileSkipped ==
    /\ Returned
    /\ \E f \in untouched : orig[f].imports # <<>>
    /\ renamed # {}

\* C6: in a file that was replaced, what precedes the import block and
\* what follows it are what they were in the original file.
C6_OutsideImportsIdentical ==
    \A f \in renamed :
        /\ files[f].head = orig[f].head
        /\ files[f].tail = orig[f].tail

\* ------------------------------------------------------------------------
\* Runs of `gx-go rewrite`, `gx-go rewrite --undo` (fullRewrite) and
\* `gx-go update` (doUpdate) on the imports of one tree
\* ------------------------------------------------------------------------

\* the import paths found in the tree
TrPaths ==
    { PathA, PathA \o <<"x">>, PathB \o <<"b">>, Canonical("h1") \o <<"x">> }

TrTrees == UNION {[1..k -> TrPaths] : k \in 1..MaxImports}

\* the package.json files the runs of fullRewrite read
TrRootDeps == { <<"h1">>, <<"h1", "h2">>, <<"h2", "h1">> }

TrFiles1 ==
    {f \in PkgFiles("h1") :
        /\ f.dvcs # NoImport \/ ~f.found
        /\ f.deps \in {<<>>, <<"h2">>}}

TrFiles2 == {f \in PkgFiles("h2") : f.deps = <<>>}

TrPkgFiles ==
    {[h \in Hashes |-> IF h = "h1" THEN f1 ELSE IF h = "h2" THEN f2 ELSE NoFile] :
        f1 \in TrFiles1, f2 \in TrFiles2}

\* the arguments of `gx-go update`
UpdPaths == { PathA, PathB, <<"e">>, RepoR }

\* trees for `gx-go update` with imports whose path starts with the
\* characters of another path without being below it
UpdImports == { RepoR, RepoR \o <<"x">>, RepoU, RepoU \o <<"x">>, PathB }

UpdTrees == UNION {[1..k -> UpdImports] : k \in 1..MaxImports}

InitTr ==
    /\ IdleFix
    /\ IdlePub
    /\ IdleCanon
    /\ IdleRw
    /\ trMode \in {"rewrite", "update"}
    /\ trOps = <<>>
    /\ trBuilt = <<>>
    /\ \E t \in TrTrees \cup UpdTrees : trHist = <<t>>
    /\ (trMode = "rewrite" => trHist[1] \in TrTrees)
    /\ IF trMode = "update"
       THEN /\ trOld \in UpdPaths
            /\ trNew \in UpdPaths
            /\ rootDeps = <<>>
            /\ pkgfiles = [h \in Hashes |-> NoFile]
            /\ undo = FALSE
       ELSE /\ trOld = <<>>
            /\ trNew = <<>>
            /\ rootDeps \in TrRootDeps
            /\ pkgfiles \in TrPkgFiles
            /\ undo \in BOOLEAN
    /\ seen = {}
    /\ m = EmptyMap
    /\ stack = <<>>
    /\ mapState = IF trMode = "update" THEN "unused" ELSE "idle"
    /\ mapErr = <<>>
    /\ vlog = {}
    /\ probed = <<>>

\* the imports of the tree as the last run left them
TrCur == trHist[Len(trHist)]

\* a translate function that tests strings.HasPrefix(in, oldimp)
rwf_NoSlash(oldimp, newimp, in) ==
    IF in = oldimp THEN newimp
    ELSE IF StrHasPrefix(in, oldimp) /\ oldimp # <<>>
         THEN newimp \o SubSeq(in, Len(oldimp) + 1, Len(in))
    ELSE in

\* doUpdate: rwf(in)
rwf(oldimp, newimp, in) ==
    IF in = oldimp THEN newimp
    ELSE IF HasSlashPrefix(in, oldimp) THEN ReplacePrefix(in, oldimp, newimp)
    ELSE in

\* fullRewrite: buildRewriteMapping has returned nil; doRewrite rewrites
\* the imports of the tree with rwm, which fills the map it reads
doRewrite ==
    /\ trMode = "rewrite"
    /\ mapState = "built"
    /\ \E t \in translateAll(m, TrCur) :
        /\ m' = t.map
        /\ trHist' = Append(trHist, t.imps)
    /\ trOps' = Append(trOps, IF undo THEN "undo" ELSE "fwd")
    /\ trBuilt' = Append(trBuilt, m)
    /\ mapState' = "rewritten"
    /\ UNCHANGED <<rootDeps, pkgfiles, undo, seen, stack, mapErr, vlog, probed,
                   trMode, trOld, trNew, notTr>>

\* gx-go rewrite is run again, with or without --undo:
\* mapping := make(map[string]string)
fullRewrite(un) ==
    /\ trMode = "rewrite"
    /\ mapState = "rewritten"
    /\ Len(trOps) < MaxRuns
    /\ undo' = un
    /\ m' = EmptyMap
    /\ seen' = {}
    /\ vlog' = {}
    /\ probed' = <<>>
    /\ mapState' = "idle"
    /\ UNCHANGED <<rootDeps, pkgfiles, stack, mapErr, trVars, notTr>>

\* gx-go update oldimp newimp: every import of the tree goes through rwf
doUpdate ==
    /\ trMode = "update"
    /\ Len(trOps) < MaxRuns
    /\ trHist' = Append(trHist, [i \in 1..Len(TrCur) |-> rwf(trOld, trNew, TrCur[i])])
    /\ trOps' = Append(trOps, "upd")
    /\ UNCHANGED <<mapVars, trMode, trOld, trNew, trBuilt, notTr>>

NextTr ==
    \/ buildRewriteMapping
    \/ processSeen
    \/ processLoadFails
    \/ processDep
    \/ processReturn
    \/ doRewrite
    \/ \E un \in BOOLEAN : fullRewrite(un)
    \/ doUpdate

SpecTr == InitTr /\ [][NextTr]_vars

\* ------------------------------------------------------------------------
\* Claims about repeated runs
\* ------------------------------------------------------------------------

\* no import of the original tree is a gx path
OriginTree == \A i \in 1..Len(trHist[1]) : trHist[1][i][1] # "gx"

\* the tree was rewritten twice, first by a, then by b
Ran(a, b) == Len(trOps) >= 2 /\ trOps[1] = a /\ trOps[2] = b

\* C7: when a tree none of whose imports is a gx path has been rewritten
\* with the forward map and then with the undo map, every import has the
\* path it had before the two runs.
C7_RoundTrip ==
    (Ran("fwd", "undo") /\ OriginTree) => trHist[3] = trHist[1]

\* an import of a sub-package of a dependency was rewritten and restored
C7_SubPackageRestored ==
    /\ Ran("fwd", "undo")
    /\ OriginTree
    /\ \E i \in 1..Len(trHist[1]) :
        /\ trHist[1][i] = PathA \o <<"x">>
        /\ trHist[2][i][1] = "gx"
        /\ trHist[3][i] = trHist[1][i]

\* C8: when the same command (rewrite, rewrite --undo, or update with the
\* same oldimp and newimp) has been run twice on a tree, the second run has
\* left every import as the first run left it.
C8_SecondRunChangesNothing ==
    (\E a \in {"fwd", "undo", "upd"} : Ran(a, a)) => trHist[3] = trHist[2]

\* ------------------------------------------------------------------------
\* Claims about the pre-resolved paths and the errors of the publisher
\* ------------------------------------------------------------------------

\* C11: a path that has an entry in preMap is never fetched with go get,
\* never searched for dependencies, never saved, rewritten or handed to
\* PublishPackage; when it is in pkgs, it is there with the hash of preMap
\* and the name of the package that was fetched by that hash.
C11_PreMappedIsOnlyFetched ==
    \A p \in DOMAIN preMap :
        /\ p \notin gotten
        /\ p \notin DOMAIN vendorDeps
        /\ p \notin DOMAIN saved
        /\ Count(publishCalls, p) = 0
        /\ p \in DOMAIN pkgs =>
            /\ pkgs[p] = Dependency(preMap[p], "pre")
            /\ preMap[p] \in fetched

\* the root was published with a pre-resolved dependency that was fetched
C11_PreMappedDependencyUsed ==
    /\ pubState = "done"
    /\ RepoC \in DOMAIN preMap
    /\ RepoC \in DOMAIN pkgs
    /\ pkgs[RepoC].Hash = PreHash
    /\ RepoR \in DOMAIN saved
    /\ pkgs[RepoC] \in Range(saved[RepoR])

\* the calls of GxPublishGoPackage that wait for the call that is failing:
\* every activation in its loop, but for the one that fails itself
Ancestors ==
    IF call # <<>> THEN pstack ELSE SubSeq(pstack, 1, Len(pstack) - 1)

\* C12: in the step in which a call of GxPublishGoPackage fails and the
\* error is returned through its callers, no caller has saved its
\* descriptor, was handed to PublishPackage or is in pkgs, and pkgs is what
\* it was before the failure.
C12_ErrorUnwindsAncestors ==
    [][(pubState = "running" /\ pubState' = "failed") =>
        /\ pkgs' = pkgs
        /\ \A i \in 1..Len(Ancestors) :
            /\ Ancestors[i].imppath \notin DOMAIN pkgs'
            /\ Ancestors[i].imppath \notin DOMAIN saved'
            /\ Count(publishCalls', Ancestors[i].imppath) = 0]_vars

\* the publish chain failed below the root after another dependency had
\* been published and recorded
C12_FailedWithSiblingRecorded ==
    /\ pubState = "failed"
    /\ RepoR \in gotten
    /\ RepoR \notin DOMAIN saved
    /\ RepoR \notin DOMAIN pkgs
    /\ \E p \in DOMAIN pkgs : Count(publishCalls, p) = 1
    /\ \E q \in gotten \ {RepoR} : q \notin DOMAIN pkgs

\* ------------------------------------------------------------------------
\* Further claims about buildRewriteMapping
\* ------------------------------------------------------------------------

\* C13: buildRewriteMapping returns, with the map or with an error, for
\* every dependency graph, also when descriptors list each other in a
\* cycle.
C13_BuildTerminates == <>(mapState \in {"built", "failed"})

\* the map was built from descriptors that list each other in a cycle
C13_CyclicGraphBuilt ==
    /\ mapState = "built"
    /\ ~Acyclic
    /\ \A h \in Hashes : Read(h) => h \in seen

\* the map that holds v -> k for every k -> v of f, when there is one
IsInverse(g, f) ==
    /\ DOMAIN g = {f[k] : k \in DOMAIN f}
    /\ \A k \in DOMAIN f : g[f[k]] = k

\* C14 (as claimed): the map built with undo is exactly the inverse of the
\* map built without it from the same descriptors.
C14_UndoIsExactInverse ==
    Ran("fwd", "undo") => IsInverse(trBuilt[2], trBuilt[1])

\* the undo run is the latest run: seen holds the dependencies it visited
UndoJustRan == Ran("fwd", "undo") /\ Len(trOps) = 2 /\ mapState = "rewritten"

\* two dependencies that were visited declare the same origin path
SharedOrigin ==
    \E h1, h2 \in seen :
        /\ h1 # h2
        /\ pkgfiles[h1].dvcs # NoImport
        /\ pkgfiles[h1].dvcs = pkgfiles[h2].dvcs

\* C14 (amended): the map built with undo holds canonical -> origin for
\* every dependency that was visited and declares an origin path; it holds
\* the reverse of every pair of the forward map, and it is exactly the
\* inverse of the forward map when no two visited dependencies declare the
\* same origin path.
C14_UndoCoversInverse ==
    UndoJustRan =>
        /\ DOMAIN trBuilt[2] =
                {Canonical(h) : h \in {x \in seen : pkgfiles[x].dvcs # NoImport}}
        /\ \A h \in seen :
                pkgfiles[h].dvcs # NoImport => trBuilt[2][Canonical(h)] = pkgfiles[h].dvcs
        /\ \A k \in DOMAIN trBuilt[1] :
                trBuilt[1][k] \in DOMAIN trBuilt[2] /\ trBuilt[2][trBuilt[1][k]] = k
        /\ ~SharedOrigin => IsInverse(trBuilt[2], trBuilt[1])

\* both maps were built from two dependencies with the same origin path:
\* the forward map has one pair, the undo map two
C14_TwoCanonicalsOneOrigin ==
    /\ UndoJustRan
    /\ SharedOrigin
    /\ Cardinality(DOMAIN trBuilt[1]) = 1
    /\ Cardinality(DOMAIN trBuilt[2]) = 2

\* the hashes whose descriptor was looked for and found in neither place
Missing == {h \in Hashes : Read(h) /\ ~pkgfiles[h].found}

\* the packages that list h as a dependency
Parents(h) ==
    {p \in {Root} \cup {x \in seen : Read(x)} : h \in Range(Dependencies(p))}

\* C15: loadDep looks into the vendor directory first and into the global
\* path only after that; buildRewriteMapping has failed exactly when a
\* dependency it visited was found in neither, its error then names that
\* dependency and a package that lists it, both places were looked into,
\* and no activation of process is left to load another dependency: there
\* is never a second descriptor that was looked for and not found.
C15_MissingDependencyIsHardError ==
    /\ probed \in {<<>>, <<"vendor">>, <<"vendor", "global">>}
    /\ mapState = "failed" <=> Missing # {}
    /\ Cardinality(Missing) <= 1
    /\ mapState = "failed" =>
        /\ probed = <<"vendor", "global">>
        /\ stack = <<>>
        /\ \E h \in Missing : \E p \in Parents(h) :
                mapErr = <<PkgName(h), PkgName(p)>>

\* a dependency of a dependency was missing after entries had been added
\* for others, and a dependency of the root was never looked for
C15_FailedBelowRoot ==
    /\ mapState = "failed"
    /\ m # EmptyMap
    /\ \E h \in Missing : h \notin Range(rootDeps)
    /\ \E h \in Range(rootDeps) : ~Read(h)

\* ------------------------------------------------------------------------
\* Claims about the workers of the import rewriter
\* ------------------------------------------------------------------------

\* the workers that are in the loop that calls the translate function
Translating == {w \in DOMAIN workers : workers[w].pc = "translate"}

\* at most one worker is in the translate loop, and it holds rwLock
OneTranslator ==
    /\ Cardinality(Translating) <= 1
    /\ \A w \in DOMAIN workers : w \in Translating <=> rwLock = w

\* C16: before and after every step at most one worker is in the loop that
\* calls the translate function, that worker holds rwLock, and a step that
\* changes the map of the translate function is a step of the worker that
\* holds rwLock.
C16_TranslateUnderMutex ==
    [][/\ OneTranslator
       /\ OneTranslator'
       /\ rwmap' # rwmap => rwLock \in Translating]_vars

\* one worker is translating while the other waits for rwLock
C16_WorkerWaitsForLock ==
    \E w1, w2 \in DOMAIN workers :
        /\ workers[w1].pc = "translate"
        /\ rwLock = w1
        /\ workers[w2].pc = "lock"

\* what the translate function can return for a path that is the first it
\* is asked about, under the map doRewrite was called with
Translations(p) ==
    IF p \in DOMAIN rwmap0 THEN {rwmap0[p]}
    ELSE LET ks == {k \in DOMAIN rwmap0 : HasSlashPrefix(p, k)}
         IN  IF ks = {} THEN {p}
             ELSE {ReplacePrefix(p, k, rwmap0[k]) : k \in ks}

\* C17: the translation every path has received is the one translation the
\* map doRewrite was called with gives it, whatever was translated before
\* it and whichever entry the prefix lookup met first.
C17_TranslationFixedByMap ==
    \A p \in DOMAIN rwmap : Translations(p) = {rwmap[p]}

InWork == {workers[w].file : w \in {x \in DOMAIN workers : workers[x].pc \notin {"recv", "done"}}}

\* C19: a temporary file exists only while rewriteImportsInFile is at work
\* on its source file: once the function has returned, by whichever path,
\* the temporary file has been renamed over the source or removed.
C19_NoTempLeftBehind ==
    \A f \in DOMAIN tmpfiles : f \in InWork

\* the file lies under a .git or vendor directory at some depth
UnderSkipped(f) ==
    \E i \in 1..(Len(f) - 1) : f[i] \in {".git", "vendor"}

\* C20: no file located under a .git or a vendor directory, at any depth
\* below the root, is ever handed to rewriteImportsInFile.
C20_NothingUnderGitOrVendor ==
    \A f \in InWork : ~UnderSkipped(f)

\* ------------------------------------------------------------------------
\* Third group of claims
\* ------------------------------------------------------------------------

\* the path belongs to the repository of p
SameRepo(c, p) == getBaseDVCS(c) = getBaseDVCS(p)

\* C21: the set depsToVendorForPackage returns for p holds no
\* standard-library path and no path of the repository of p, wherever in the
\* tree of p the import was found.
C21_NoStdlibNoOwnRepo ==
    \A p \in DOMAIN vendorDeps :
        \A c \in vendorDeps[p] : pathIsNotStdlib(c) /\ ~SameRepo(c, p)

\* the packages whose dependencies were discovered
Discovered == DOMAIN vendorDeps

\* a and b are in different repositories and import each other
ImportEachOther(a, b) ==
    /\ a \in Discovered /\ b \in Discovered
    /\ a # b
    /\ b \in vendorDeps[a]
    /\ a \in vendorDeps[b]

\* the loop of GxPublishGoPackage(a) calls GxPublishGoPackage(c) and that
\* call goes on to discover the dependencies of c
Recurses(a, c) ==
    /\ a \in Discovered
    /\ c \in vendorDeps[a]
    /\ ~skipsChild(c, a)
    /\ ~PreMapped(preMap, c)

\* C22 (as claimed): when the package the publisher was started on and
\* another package import each other, the run never ends.
C22_MutualImportNeverEnds ==
    (\E b \in Discovered : ImportEachOther(getBaseDVCS(arg), b))
        => pubState \notin {"done", "failed"}

\* C22 (amended): when each of two packages is published from the loop of
\* the other, no call on either ever returns a Dependency: neither is
\* published or entered in pkgs, and a run started on one of them does not
\* end with a result.
C22_MutualImportNeverPublished ==
    \A a, b \in Discovered :
        (a # b /\ Recurses(a, b) /\ Recurses(b, a)) =>
            /\ a \notin DOMAIN pkgs
            /\ a \notin Range(publishCalls)
            /\ (getBaseDVCS(arg) \in {a, b} => pubState # "done")

\* the publish of a package has re-entered itself through another package
C22_ReenteredThroughOther ==
    /\ Len(pstack) = 3
    /\ pstack[1].imppath = pstack[3].imppath
    /\ pstack[2].imppath # pstack[1].imppath
    /\ Recurses(pstack[1].imppath, pstack[2].imppath)
    /\ Recurses(pstack[2].imppath, pstack[1].imppath)

\* the step loads the descriptor of the current dependency: loadDep fails
\* and the build ends, or it succeeds and process recurses
LoadStep ==
    /\ mapState = "building"
    /\ (mapState' = "failed" \/ Len(stack') = Len(stack) + 1)

\* C23: within one buildRewriteMapping invocation a hash is loaded and
\* recursed into only when it is not in seen and its descriptor was not
\* read before, it is in seen once the load is made, and seen only grows.
C23_LoadedAtMostOnce ==
    [][/\ mapState = "building" => seen \subseteq seen'
       /\ LoadStep =>
            \E h \in Hashes :
                /\ h = CurDep
                /\ h \notin seen
                /\ ~Read(h)
                /\ seen' = seen \cup {h}
                /\ pkgfiles'[h] # NoFile]_vars

\* a hash that two parents reference was met again after it had been
\* loaded, and the loop went past it
C23_SecondParentSkips ==
    /\ mapState = "building"
    /\ stack # <<>>
    /\ Top.i > 1
    /\ Top.i <= Len(Dependencies(Top.pkg)) + 1
    /\ LET h == Dependencies(Top.pkg)[Top.i - 1]
       IN  /\ h \in seen
           /\ Cardinality(Parents(h)) >= 2
           /\ \A k \in 1..Len(stack) : stack[k].pkg # h

\* the workers that are inside rewriteImportsInFile
Working == {w \in DOMAIN workers : workers[w].pc \notin {"recv", "done"}}

\* C24: every candidate of the walk is received once, by one worker, no
\* file is received that is not a candidate, and when RewriteImports has
\* returned every candidate was received, every worker has left its loop
\* and none is inside rewriteImportsInFile.
C24_EachCandidateOnce ==
    /\ \A i, j \in 1..Len(received) : received[i] = received[j] => i = j
    /\ Range(received) \subseteq Candidates
    /\ \A w \in Working : workers[w].file \in Range(received)
    /\ \A v, w \in Working : workers[v].file = workers[w].file => v = w
    /\ Returned =>
        /\ Range(received) = Candidates
        /\ Working = {}
        /\ \A w \in DOMAIN workers : workers[w].pc = "done"

\* RewriteImports has returned after its two workers shared four candidates
C24_AllReceivedAtReturn ==
    /\ Returned
    /\ Len(received) = 4
    /\ Cardinality(renamed \cup untouched \cup Range(rwErrors)) >= 3

\* C25: RewriteImports returns in the end; the channel is closed once, when
\* the walk has no candidate left, it is never sent on after that, and
\* every worker has left its loop when the wait is over.
C25_EventuallyReturns ==
    /\ <>Returned
    /\ [][/\ closed => closed'
          /\ (closed' /\ ~closed) => NextCandidate(walkPos) = 0
          /\ received' # received => (~closed /\ ~closed')
          /\ Returned' => (closed' /\ \A w \in DOMAIN workers : workers'[w].pc = "done")]_vars

\* both workers wait in their receive loops after the channel was closed,
\* with every candidate received
C25_WorkersLeaveAfterClose ==
    /\ closed
    /\ rwState = "waiting"
    /\ Len(received) = 4
    /\ \A w \in DOMAIN workers : workers[w].pc = "recv"

\* C26: the worker that holds rwLock is inside the loop over the imports
\* of its file, so the mutex is not held while a file is parsed, printed,
\* created, written or renamed, nor after rewriteImportsInFile has returned
\* by any path; and no worker waits for the mutex forever.
C26_MutexOnlyAroundTranslate ==
    /\ [](rwLock # 0 => (rwLock \in DOMAIN workers /\ workers[rwLock].pc = "translate"))
    /\ \A w \in 1..NumCPU : []<>(workers[w].pc # "lock")

\* strconv.Unquote has failed in one worker, which returned with the mutex
\* released, and the other worker has taken the mutex after it
C26_LockTakenAfterErrorReturn ==
    /\ faults = 1
    /\ created = {}
    /\ \E f \in Range(rwErrors) : files[f].ok /\ files[f].imports # <<>>
    /\ rwLock # 0

\* C27: a call of GxPublishGoPackage for a path that is a key of the
\* override map is resolved by the override check (or by the memo check
\* before it), however many segments the key has.
C27_OverrideKeyResolved ==
    (Calling /\ call \in DOMAIN preMap /\ ~Memoized(pkgs, imppath))
        => PreMapped(preMap, imppath)

\* the packages GxPublishGoPackage has published from source with success
Published == {p \in DOMAIN pkgs : p \in Range(publishCalls) /\ p \in DOMAIN saved}

\* C28: the dependency list saved for a published package p has an entry
\* for every discovered dependency that is in another repository than p,
\* also when the path of that repository has the path of p as a prefix.
C28_EveryForeignDependencySaved ==
    \A p \in Published :
        \A c \in vendorDeps[p] :
            ~SameRepo(c, p) => (c \in DOMAIN pkgs /\ pkgs[c] \in Range(saved[p]))

\* the path p lies below the path old: it starts with old followed by '/'
Below(p, old) ==
    /\ Len(p) > Len(old)
    /\ \A i \in 1..Len(old) : p[i] = old[i]

\* what follows old in a path below it
Remainder(p, old) == [i \in 1..(Len(p) - Len(old)) |-> p[Len(old) + i]]

\* C29: a run of doUpdate(dir, old, new) turns an import equal to old into
\* new, an import below old into new followed by the remainder, and leaves
\* every other import as it was, also one that starts with the characters
\* of old without a '/' after them.
C29_UpdateTranslate ==
    \A k \in 1..Len(trOps) :
        trOps[k] = "upd" =>
            \A i \in 1..Len(trHist[k]) :
                LET p == trHist[k][i]
                    q == trHist[k + 1][i]
                IN  /\ p = trOld => q = trNew
                    /\ (p # trOld /\ Below(p, trOld)) => q = trNew \o Remainder(p, trOld)
                    /\ (p # trOld /\ ~Below(p, trOld)) => q = p

\* an update has rewritten an import below old and left alone an import
\* that starts with the characters of old
C29_SiblingRepoLeftAlone ==
    /\ trOps = <<"upd">>
    /\ trOld = RepoR
    /\ trNew = PathB
    /\ trHist[1] = <<RepoR \o <<"x">>, RepoU \o <<"x">>>>
    /\ trHist[2] = <<PathB \o <<"x">>, RepoU \o <<"x">>>>

\* ------------------------------------------------------------------------
\* fixImports: the translate function of `gx-go hook post-install`
\* ------------------------------------------------------------------------

GxIpfs == <<"gx", "ipfs">>

\* the import paths of the files fixImports walks over
FixPaths ==
    { PathA, GxIpfs, <<"gx", "ipfs", "h1">>, Canonical("h1"),
      Canonical("h1") \o <<"x">>, Canonical("h2") }

FixTrees == UNION {[1..k -> FixPaths] : k \in 1..MaxImports}

\* FindPackageInDir(&pkg, gopath/src/canon): an error, or a package.json
\* with or without a dvcsimport
FixFiles ==
    {[found |-> FALSE, dvcs |-> NoImport]}
        \cup {[found |-> TRUE, dvcs |-> d] : d \in DvcsImports}

FixHashes == {"h1", "h2"}

InitFix ==
    /\ IdleMap
    /\ IdlePub
    /\ IdleCanon
    /\ IdleRw
    /\ IdleTr
    /\ fixIn \in FixTrees
    /\ fixPkgs \in [FixHashes -> FixFiles]
    /\ fixmap = EmptyMap
    /\ fixOut = <<>>
    /\ fixState = "running"

\* parts[:4] and parts[4:] of a slice of len(parts) elements are in range
InRange(parts) == Len(parts) >= 4

\* fixImports, rwf(imp) for an imp whose parts can be sliced: the path that
\* is returned and the fixmap that is left
fixRwf(fm, pk, imp) ==
    IF HasSlashPrefix(imp, GxIpfs)
    THEN LET canon == SubSeq(imp, 1, 4)
             rest == SubSeq(imp, 5, Len(imp))
             file == pk[canon[3]]
         IN  IF canon \in DOMAIN fm THEN [out |-> fm[canon] \o rest, map |-> fm]
             ELSE IF ~file.found THEN [out |-> imp, map |-> fm]
             ELSE IF file.dvcs # NoImport
                  THEN [out |-> file.dvcs \o rest, map |-> MapPut(fm, imp, file.dvcs)]
             ELSE [out |-> imp, map |-> fm]
    ELSE [out |-> imp, map |-> fm]

\* a worker calls rwf for the next import: the slice expression panics, or
\* rwf returns
fixCall ==
    /\ fixState = "running"
    /\ Len(fixOut) < Len(fixIn)
    /\ LET imp == fixIn[Len(fixOut) + 1]
       IN  IF HasSlashPrefix(imp, GxIpfs) /\ ~InRange(imp)
           THEN /\ fixState' = "panicked"
                /\ UNCHANGED <<fixmap, fixOut>>
           ELSE /\ fixmap' = fixRwf(fixmap, fixPkgs, imp).map
                /\ fixOut' = Append(fixOut, fixRwf(fixmap, fixPkgs, imp).out)
                /\ UNCHANGED fixState
    /\ UNCHANGED <<fixIn, fixPkgs, notFix>>

\* RewriteImports returns
fixReturn ==
    /\ fixState = "running"
    /\ Len(fixOut) = Len(fixIn)
    /\ fixState' = "returned"
    /\ UNCHANGED <<fixIn, fixPkgs, fixmap, fixOut, notFix>>

NextFix ==
    \/ fixCall
    \/ fixReturn

SpecFix == InitFix /\ [][NextFix]_vars

\* C30: rwf returns for every import path, also for one that starts with
\* gx/ipfs/ and has fewer than four segments, and returns a path that does
\* not start with gx/ipfs/ unchanged.
C30_FixTranslateTotal ==
    /\ fixState # "panicked"
    /\ \A i \in 1..Len(fixOut) :
            ~HasSlashPrefix(fixIn[i], GxIpfs) => fixOut[i] = fixIn[i]

====
